---- MODULE Spec2Model ----
(***************************************************************************)
(* The ThreatHunter resource models of cbapi (psc/threathunter/models.py): *)
(* the Feed / Report validation maps, the construction of a Feed from a    *)
(* flat or enveloped document, and the create / update / delete / refresh  *)
(* operations, as a state machine over one model object and the log of the *)
(* calls made on the API connection `cb`.                                  *)
(*                                                                         *)
(* A Python dict is a sequence of <<key, value>> pairs in insertion order  *)
(* (Python 3.7 and later), which is also the order its loops run in.       *)
(* A JSON value is a record [t, lit, map, list]: a literal (a scalar or a  *)
(* list of scalars, named by its Python source text), a nested dict, or a  *)
(* list of dicts.                                                          *)
(*                                                                         *)
(* Spec follows one object from its constructor through any sequence of    *)
(* calls; SpecValidate applies _validate to attribute mappings drawn       *)
(* directly.  Constructors are called with force_init=False, and a call on *)
(* cb returns a document (transport errors are not modelled).              *)
(***************************************************************************)
EXTENDS Integers, Sequences, FiniteSets, TLC

VARIABLES
    obj,            \* the model object: [cls, info (_info), reports (_reports' _info)]
    net,            \* calls made on cb, in order: [method, url, id]
    err,            \* the exception the last call raised, or NoErr
    last,           \* the last call and its arguments
    urlRaises       \* whether the installed validators.url raises on a non-string

vars == <<obj, net, err, last, urlRaises>>

---------------------------------------------------------------------------
(* Bounds *)

\* how many fields of a drawn attribute mapping differ from the base document
MaxVar == 2
\* how many calls on cb one behaviour makes
MaxCalls == 2
\* how many entries a drawn `reports` list holds
MaxReports == 2

---------------------------------------------------------------------------
(* JSON values and Python dicts *)

Lit(s) == [t |-> "lit", lit |-> s, map |-> <<>>, list |-> <<>>]
Dict(m) == [t |-> "dict", lit |-> "", map |-> m, list |-> <<>>]
DictList(l) == [t |-> "list", lit |-> "", map |-> <<>>, list |-> l]

PyNone == Lit("None")

StrLits == {"'abc'", "''", "'http://a.io'", "'public'", "'private'", "'f1'", "'u1'"}
IntLits == {"7", "0"}
ListLits == {"[]", "['abc']", "[7]"}

\* type(x)
PyType(x) ==
    IF x.t = "dict" THEN "dict"
    ELSE IF x.t = "list" THEN "list"
    ELSE IF x.lit \in StrLits THEN "str"
    ELSE IF x.lit \in IntLits THEN "int"
    ELSE IF x.lit \in ListLits THEN "list"
    ELSE "NoneType"

\* the types of the elements of a list value
ElemTypes(x) ==
    IF x.t = "list" THEN [i \in DOMAIN x.list |-> "dict"]
    ELSE IF x.lit = "['abc']" THEN <<"str">>
    ELSE IF x.lit = "[7]" THEN <<"int">>
    ELSE <<>>

\* bool(x): `if initial_data:`, `elif model_unique_id:`, `if not self.id:`
Truthy(x) ==
    IF x.t = "dict" THEN x.map # <<>>
    ELSE IF x.t = "list" THEN x.list # <<>>
    ELSE x.lit \notin {"None", "''", "0", "[]"}

Keys(m) == {m[i][1] : i \in DOMAIN m}

\* `key in d`
HasKey(m, k) == k \in Keys(m)

\* d[key], for a key of d
Get(m, k) == m[CHOOSE i \in DOMAIN m : m[i][1] = k][2]

\* d.get(key, default)
GetOr(m, k, default) == IF HasKey(m, k) THEN Get(m, k) ELSE default

\* d[key] = value: an existing key keeps its place, a new one goes last
SetItem(m, k, v) ==
    IF HasKey(m, k)
    THEN [i \in DOMAIN m |-> IF m[i][1] = k THEN <<k, v>> ELSE m[i]]
    ELSE Append(m, <<k, v>>)

RECURSIVE DictUpdate(_, _)
\* d.update(new)
DictUpdate(m, new) ==
    IF new = <<>> THEN m
    ELSE DictUpdate(SetItem(m, Head(new)[1], Head(new)[2]), Tail(new))

SeqMin(S) == CHOOSE i \in S : \A j \in S : i <= j

---------------------------------------------------------------------------
(* Exceptions *)

NoErr == [exc |-> "", msg |-> "", key |-> ""]
Raise(exc, msg, key) == [exc |-> exc, msg |-> msg, key |-> key]
ApiError(msg, key) == Raise("ApiError", msg, key)

---------------------------------------------------------------------------
(* The validation maps: entries in declaration order.  `required` is       *)
(* "absent" where the entry has no "required" key.                         *)

Rule(key, required, func) == [key |-> key, required |-> required, func |-> func]

FeedValidationMap == <<
    Rule("name", "absent", "str"),
    Rule("owner", "absent", "str"),
    Rule("provider_url", "absent", "url"),
    Rule("summary", "absent", "str"),
    Rule("category", "absent", "str"),
    Rule("access", "absent", "str_public_private"),
    Rule("id", "False", "str") >>

ReportValidationMap == <<
    Rule("id", "False", "str"),
    Rule("timestamp", "absent", "int"),
    Rule("title", "absent", "str"),
    Rule("description", "absent", "str"),
    Rule("severity", "absent", "int"),
    Rule("link", "False", "url"),
    Rule("tags", "False", "list_of_str"),
    Rule("iocs", "False", "list_of_IOC"),
    Rule("iocs_v2", "False", "list_of_IOC_v2"),
    Rule("visibility", "False", "str_public_private") >>

SchemaKeys(validation_map) == {validation_map[j].key : j \in DOMAIN validation_map}

\* mutant: validation.get("required", False)
Required_DefaultFalse(validation) ==
    IF validation.required = "absent" THEN FALSE ELSE validation.required = "True"

\* validation.get("required", True)
Required(validation) ==
    IF validation.required = "absent" THEN TRUE ELSE validation.required = "True"

\* validators.url(x): truthy for a well-formed URL, a falsy ValidationFailure for
\* another string; on a non-string the library either raises TypeError (its
\* regex match) or returns the failure, depending on the installed version.
ValidatorsUrl(x, raises) ==
    IF PyType(x) = "str" THEN (IF x.lit = "'http://a.io'" THEN "True" ELSE "False")
    ELSE IF raises THEN "TypeError" ELSE "False"

Bool(b) == IF b THEN "True" ELSE "False"

\* validation["func"](x): "True", "False" or the exception raised
Func(func, x, raises) ==
    CASE func = "str" -> Bool(PyType(x) = "str")
      [] func = "int" -> Bool(PyType(x) = "int")
      [] func = "url" -> ValidatorsUrl(x, raises)
      [] func = "str_public_private" ->
            Bool(PyType(x) = "str" /\ x.lit \in {"'public'", "'private'"})
      [] func = "list_of_str" ->
            Bool(PyType(x) = "list"
                 /\ \A i \in DOMAIN ElemTypes(x) : ElemTypes(x)[i] = "str")
      \* no element of a JSON document is an IOC / IOC_v2 instance
      [] func \in {"list_of_IOC", "list_of_IOC_v2"} ->
            Bool(PyType(x) = "list" /\ ElemTypes(x) = <<>>)

\* one pass of the second loop's body
CheckRule(validation, info, raises) ==
    IF ~HasKey(info, validation.key) /\ Required(validation)
    THEN ApiError("required field missing", validation.key)
    ELSE IF HasKey(info, validation.key)
            /\ Func(validation.func, Get(info, validation.key), raises) # "True"
    THEN IF Func(validation.func, Get(info, validation.key), raises) = "False"
         THEN ApiError("invalid field", validation.key)
         ELSE Raise("TypeError", "expected string or bytes-like object", validation.key)
    ELSE NoErr

\* mutant: the schema loop runs before the unknown-field loop
ValidateFields_RequiredFirst(validation_map, info, raises) ==
    LET unknown == {i \in DOMAIN info : info[i][1] \notin SchemaKeys(validation_map)}
        bad == {j \in DOMAIN validation_map :
                    CheckRule(validation_map[j], info, raises) # NoErr}
    IN  IF bad # {} THEN CheckRule(validation_map[SeqMin(bad)], info, raises)
        ELSE IF unknown # {} THEN ApiError("unexpected field", info[SeqMin(unknown)][1])
        ELSE NoErr

\* mutant: the required-field check runs over the whole schema before any
\* predicate is applied
ValidateFields_TwoPass(validation_map, info, raises) ==
    LET unknown == {i \in DOMAIN info : info[i][1] \notin SchemaKeys(validation_map)}
        missing == {j \in DOMAIN validation_map :
                        ~HasKey(info, validation_map[j].key) /\ Required(validation_map[j])}
        bad == {j \in DOMAIN validation_map :
                    CheckRule(validation_map[j], info, raises) # NoErr}
    IN  IF unknown # {} THEN ApiError("unexpected field", info[SeqMin(unknown)][1])
        ELSE IF missing # {} THEN CheckRule(validation_map[SeqMin(missing)], info, raises)
        ELSE IF bad # {} THEN CheckRule(validation_map[SeqMin(bad)], info, raises)
        ELSE NoErr

\* the two loops Feed._validate and Report._validate share, over self._info
ValidateFields(validation_map, info, raises) ==
    LET unknown == {i \in DOMAIN info : info[i][1] \notin SchemaKeys(validation_map)}
        bad == {j \in DOMAIN validation_map :
                    CheckRule(validation_map[j], info, raises) # NoErr}
    IN  IF unknown # {} THEN ApiError("unexpected field", info[SeqMin(unknown)][1])
        ELSE IF bad # {} THEN CheckRule(validation_map[SeqMin(bad)], info, raises)
        ELSE NoErr

Report_validate(info, raises) == ValidateFields(ReportValidationMap, info, raises)

SeqMax(S) == CHOOSE i \in S : \A j \in S : i >= j

\* mutant: every report is validated and the last failure is the one raised
Feed_validate_LastChild(o, raises) ==
    LET own == ValidateFields(FeedValidationMap, o.info, raises)
        badc == {i \in DOMAIN o.reports : Report_validate(o.reports[i], raises) # NoErr}
    IN  IF own # NoErr THEN own
        ELSE IF badc # {} THEN Report_validate(o.reports[SeqMax(badc)], raises)
        ELSE NoErr

\* Feed._validate: the feed's own fields, then each report in order
Feed_validate(o, raises) ==
    LET own == ValidateFields(FeedValidationMap, o.info, raises)
        badc == {i \in DOMAIN o.reports : Report_validate(o.reports[i], raises) # NoErr}
    IN  IF own # NoErr THEN own
        ELSE IF badc # {} THEN Report_validate(o.reports[SeqMin(badc)], raises)
        ELSE NoErr

---------------------------------------------------------------------------
(* Attribute lookup and the base constructor (cbapi.models.NewBaseModel)   *)

Classes == {"Process", "Event", "Tree", "Feed", "Report", "Watchlist", "IOC", "IOC_v2"}

NoObj == [cls |-> "none", info |-> <<>>, reports |-> <<>>]

PrimaryKey(cls) == IF cls \in {"Process", "Event", "Tree"} THEN "process_guid" ELSE "id"

\* self.<name> for a name that is no instance attribute: the field of _info,
\* or an AttributeError when _info has no such field
GetAttr(info, name) ==
    IF HasKey(info, name) THEN [err |-> NoErr, value |-> Get(info, name)]
    ELSE [err |-> Raise("AttributeError", "object has no attribute", name), value |-> PyNone]

\* NewBaseModel.__init__: _info is initial_data, with the identity stored
\* under the class's primary key when one is passed
NewBaseModel_init(cls, model_unique_id, initial_data) ==
    LET base == IF initial_data # PyNone THEN initial_data.map ELSE <<>>
    IN  IF model_unique_id # PyNone
        THEN SetItem(base, PrimaryKey(cls), model_unique_id)
        ELSE base

---------------------------------------------------------------------------
(* Constructors: [err, obj, calls]                                         *)

Built(o) == [err |-> NoErr, obj |-> o, calls |-> <<>>]
Failed(e, calls) == [err |-> e, obj |-> NoObj, calls |-> calls]

\* Process, Event, Tree (explicit pass-through __init__) and Watchlist (inherited)
Plain_init(cls, model_unique_id, initial_data) ==
    Built([cls |-> cls,
           info |-> NewBaseModel_init(cls, model_unique_id, initial_data),
           reports |-> <<>>])

\* Report.__init__
Report_init(model_unique_id, initial_data) ==
    IF initial_data = PyNone
    THEN Failed(Raise("TypeError", "'NoneType' object is not subscriptable", "id"), <<>>)
    ELSE IF ~HasKey(initial_data.map, "id")
    THEN Failed(Raise("KeyError", "", "id"), <<>>)
    ELSE LET info == NewBaseModel_init("Report", Get(initial_data.map, "id"), initial_data)
         IN  \* self._iocs = self.iocs binds the method; self._iocs_v2 is read before
             \* it is ever assigned
             IF GetAttr(info, "_iocs_v2").err # NoErr
             THEN Failed(GetAttr(info, "_iocs_v2").err, <<>>)
             ELSE Built([cls |-> "Report", info |-> info, reports |-> <<>>])

\* IOC.__init__ and IOC_v2.__init__: super(Report, self) on an object that is
\* no Report
IOC_init(cls, model_unique_id, initial_data) ==
    IF ~Truthy(initial_data)
    THEN Failed(ApiError("IOC can only be initialized from initial_data", ""), <<>>)
    ELSE Failed(Raise("TypeError", "super(type, obj): obj must be an instance or subtype of type", ""),
                <<>>)

GetCall(id) == [method |-> "get", url |-> "/threathunter/feedmgr/v1/feed/{}", id |-> id]
PostCall == [method |-> "post", url |-> "/threathunter/feedmgr/v1/feed", id |-> PyNone]
PutCall(id) == [method |-> "put", url |-> "/threathunter/feedmgr/v1/feed/{}/feedinfo", id |-> id]
DeleteCall(id) == [method |-> "delete", url |-> "/threathunter/feedmgr/v1/feed/{}", id |-> id]

\* Feed.__init__, lines 215-230: the unwrapped document, the raw reports and
\* the calls made; resp is what cb.get_object returns if it is called
Feed_unwrap(model_unique_id, initial_data, resp) ==
    IF Truthy(initial_data)
    THEN IF HasKey(initial_data.map, "feedinfo")
         THEN [item |-> Get(initial_data.map, "feedinfo").map,
               reports |-> GetOr(initial_data.map, "reports", DictList(<<>>)).list,
               calls |-> <<>>]
         ELSE [item |-> initial_data.map, reports |-> <<>>, calls |-> <<>>]
    ELSE IF Truthy(model_unique_id)
    THEN [item |-> GetOr(resp, "feedinfo", Dict(<<>>)).map,
          reports |-> GetOr(resp, "reports", DictList(<<>>)).list,
          calls |-> <<GetCall(model_unique_id)>>]
    ELSE [item |-> <<>>, reports |-> <<>>, calls |-> <<>>]

\* Feed.__init__
Feed_init(model_unique_id, initial_data, resp) ==
    LET u == Feed_unwrap(model_unique_id, initial_data, resp)
        info == NewBaseModel_init("Feed", GetOr(u.item, "id", PyNone), Dict(u.item))
        kids == [i \in DOMAIN u.reports |-> Report_init(PyNone, Dict(u.reports[i]))]
        badk == {i \in DOMAIN kids : kids[i].err # NoErr}
    IN  IF badk # {} THEN Failed(kids[SeqMin(badk)].err, u.calls)
        ELSE [err |-> NoErr,
              obj |-> [cls |-> "Feed", info |-> info,
                       reports |-> [i \in DOMAIN kids |-> kids[i].obj.info]],
              calls |-> u.calls]

---------------------------------------------------------------------------
(* The documents and arguments the operations are given                    *)

Absent == "<absent>"

\* the literals a drawn attribute mapping holds, and those of a constructor's document
DrawLits == {"'abc'", "'http://a.io'", "'public'", "7", "[]", "['abc']"}
DocLits == {"'abc'", "''", "7"}

FeedKeyOrder ==
    <<"name", "owner", "provider_url", "summary", "category", "access", "id", "extra">>
ReportKeyOrder ==
    <<"id", "timestamp", "title", "description", "severity", "link", "tags", "iocs",
      "iocs_v2", "visibility", "extra", "_iocs_v2">>

Reverse(s) == [i \in DOMAIN s |-> s[Len(s) + 1 - i]]

\* a row gives every key its literal or Absent
FeedBase ==
    [k \in Keys([i \in DOMAIN FeedKeyOrder |-> <<FeedKeyOrder[i]>>]) |->
        CASE k \in {"name", "owner", "summary", "category"} -> "'abc'"
          [] k = "provider_url" -> "'http://a.io'"
          [] k = "access" -> "'public'"
          [] OTHER -> Absent]
FeedBaseId == [FeedBase EXCEPT !["id"] = "'f1'"]

ReportBase ==
    [k \in Keys([i \in DOMAIN ReportKeyOrder |-> <<ReportKeyOrder[i]>>]) |->
        CASE k \in {"timestamp", "severity"} -> "7"
          [] k \in {"title", "description"} -> "'abc'"
          [] OTHER -> Absent]
\* a report document Report.__init__ accepts
ReportBaseC == [ReportBase EXCEPT !["id"] = "'abc'", !["_iocs_v2"] = "[]"]

\* the rows that differ from base in at most n keys
Rows(base, lits, n) ==
    UNION { { [k \in DOMAIN base |-> IF k \in D THEN a[k] ELSE base[k]] :
                a \in [D -> lits \cup {Absent}] } :
            D \in {D \in SUBSET DOMAIN base : Cardinality(D) <= n} }

\* the dict of a row, its keys inserted in the given order
ToDict(row, order) ==
    LET ks == SelectSeq(order, LAMBDA k : row[k] # Absent)
    IN  [i \in DOMAIN ks |-> <<ks[i], Lit(row[ks[i]])>>]

SeqsUpTo(S, n) == UNION {[1..k -> S] : k \in 0..n}

\* how many fields of a constructor's document differ from the base document
MaxDocVar == 1

ReportEntries ==
    { ToDict(r, ReportKeyOrder) :
        r \in { ReportBase,
                [ReportBase EXCEPT !["id"] = "'abc'"],
                ReportBaseC,
                [ReportBaseC EXCEPT !["id"] = "''"],
                [ReportBaseC EXCEPT !["extra"] = "7"] } }

Envelope(feedinfo, reports) ==
    << <<"feedinfo", Dict(feedinfo)>>, <<"reports", DictList(reports)>> >>

EnvelopeInfos ==
    { ToDict(r, FeedKeyOrder) :
        r \in {FeedBase, FeedBaseId, [FeedBaseId EXCEPT !["name"] = Absent]} }

FeedDocs ==
    { ToDict(r, FeedKeyOrder) :
        r \in Rows(FeedBase, DocLits, MaxDocVar) \cup Rows(FeedBaseId, DocLits, MaxDocVar) }
    \cup { <<>>,
           Append(ToDict(FeedBase, FeedKeyOrder),
                  <<"reports", DictList(<<ToDict(ReportBaseC, ReportKeyOrder)>>)>>) }
    \cup { << <<"feedinfo", Dict(f)>> >> : f \in EnvelopeInfos }
    \cup { Envelope(f, rs) : f \in EnvelopeInfos, rs \in SeqsUpTo(ReportEntries, MaxReports) }

ReportDocs == { ToDict(r, ReportKeyOrder) : r \in Rows(ReportBaseC, DocLits, MaxDocVar) }

PlainDocs == { <<>>, << <<"process_guid", Lit("'abc'")>> >> }

Ids == {PyNone, Lit("'u1'")}

\* what cb.get_object returns
FetchResponses ==
    { <<>>,
      << <<"feedinfo", Dict(ToDict(FeedBaseId, FeedKeyOrder))>> >>,
      Envelope(ToDict(FeedBaseId, FeedKeyOrder), <<ToDict(ReportBaseC, ReportKeyOrder)>>) }

\* what cb.post_object(...).json() and cb.put_object(...).json() return
Responses ==
    { <<>>,
      << <<"id", Lit("'f1'")>> >>,
      << <<"id", Lit("'f1'")>>, <<"access", Lit("'private'")>> >> }

\* the keyword arguments of Feed.update
Partials ==
    { <<>>,
      << <<"name", Lit("'abc'")>> >>,
      << <<"newfield", Lit("7")>> >>,
      << <<"name", Lit("'abc'")>>, <<"newfield", Lit("7")>> >> }

\* the object validation is checked on: the base mapping of cls with the keys
\* of D set as `a` says, its keys inserted in the given order
Drawn(cls, D, a, order) ==
    LET base == IF cls = "Feed" THEN FeedBase ELSE ReportBase
    IN  [cls |-> cls,
         info |-> ToDict([k \in DOMAIN base |-> IF k \in D THEN a[k] ELSE base[k]], order),
         reports |-> <<>>]

DrawnKeys(cls) == IF cls = "Feed" THEN DOMAIN FeedBase ELSE DOMAIN ReportBase

DrawnOrders(cls) ==
    IF cls = "Feed" THEN {FeedKeyOrder, Reverse(FeedKeyOrder)}
    ELSE {ReportKeyOrder, Reverse(ReportKeyOrder)}

---------------------------------------------------------------------------
(* Operations                                                              *)

Call(op, cls, uid, data, kwargs) ==
    [op |-> op, cls |-> cls, uid |-> uid, data |-> data, kwargs |-> kwargs]
Op(op) == Call(op, obj.cls, PyNone, PyNone, <<>>)

Fresh == last.op = "start"
Live == obj.cls # "none"

Construct(r) ==
    /\ Len(net) + Len(r.calls) <= MaxCalls
    /\ obj' = r.obj
    /\ err' = r.err
    /\ net' = net \o r.calls
    /\ UNCHANGED urlRaises

NewFeed ==
    /\ Fresh
    /\ \E uid \in Ids, data \in {PyNone} \cup {Dict(d) : d \in FeedDocs},
          resp \in FetchResponses :
            /\ Construct(Feed_init(uid, data, resp))
            /\ last' = Call("init", "Feed", uid, data, <<>>)

NewReport ==
    /\ Fresh
    /\ \E uid \in Ids, data \in {PyNone} \cup {Dict(d) : d \in ReportDocs} :
            /\ Construct(Report_init(uid, data))
            /\ last' = Call("init", "Report", uid, data, <<>>)

NewIOC ==
    /\ Fresh
    /\ \E cls \in {"IOC", "IOC_v2"}, uid \in Ids,
          data \in {PyNone, Dict(<<>>), Dict(<< <<"id", Lit("'abc'")>> >>)} :
            /\ Construct(IOC_init(cls, uid, data))
            /\ last' = Call("init", cls, uid, data, <<>>)

NewPlain ==
    /\ Fresh
    /\ \E cls \in {"Process", "Event", "Tree", "Watchlist"}, uid \in Ids,
          data \in {PyNone} \cup {Dict(d) : d \in PlainDocs} :
            /\ Construct(Plain_init(cls, uid, data))
            /\ last' = Call("init", cls, uid, data, <<>>)

\* mutant: a Feed re-fetches itself
Refresh_Refetch ==
    /\ Live
    /\ last' = Op("refresh")
    /\ UNCHANGED urlRaises
    /\ IF obj.cls = "Feed" /\ Len(net) < MaxCalls
       THEN /\ net' = Append(net, GetCall(GetOr(obj.info, "id", PyNone)))
            /\ err' = NoErr
            /\ UNCHANGED obj
       ELSE /\ err' = ApiError("refresh() called on an unrefreshable model", "")
            /\ UNCHANGED <<obj, net>>

\* UnrefreshableModel.refresh, inherited unchanged by every class of the module
Refresh ==
    /\ Live
    /\ err' = ApiError("refresh() called on an unrefreshable model", "")
    /\ last' = Op("refresh")
    /\ UNCHANGED <<obj, net, urlRaises>>

\* obj._validate()
Validate ==
    /\ obj.cls \in {"Feed", "Report"}
    /\ err' = IF obj.cls = "Feed" THEN Feed_validate(obj, urlRaises)
              ELSE Report_validate(obj.info, urlRaises)
    /\ last' = Op("validate")
    /\ UNCHANGED <<obj, net, urlRaises>>

\* mutant: the post is made before the validation
FeedCreate_PostFirst ==
    /\ obj.cls = "Feed"
    /\ last' = Op("create")
    /\ UNCHANGED urlRaises
    /\ Len(net) < MaxCalls
    /\ \E new_info \in Responses :
         /\ net' = Append(net, PostCall)
         /\ obj' = [obj EXCEPT !.info = DictUpdate(@, new_info)]
         /\ err' = Feed_validate(obj, urlRaises)

\* Feed._create
FeedCreate ==
    /\ obj.cls = "Feed"
    /\ last' = Op("create")
    /\ UNCHANGED urlRaises
    /\ IF Feed_validate(obj, urlRaises) # NoErr
       THEN /\ err' = Feed_validate(obj, urlRaises)
            /\ UNCHANGED <<obj, net>>
       ELSE /\ Len(net) < MaxCalls
            /\ \E new_info \in Responses :
                 /\ net' = Append(net, PostCall)
                 /\ obj' = [obj EXCEPT !.info = DictUpdate(@, new_info)]
                 /\ err' = NoErr

\* `if not self.id: raise ApiError(msg)`: the exception, or NoErr
CheckId(info, msg) ==
    IF GetAttr(info, "id").err # NoErr THEN GetAttr(info, "id").err
    ELSE IF ~Truthy(GetAttr(info, "id").value) THEN ApiError(msg, "")
    ELSE NoErr

\* mutant: the keyword arguments are sent without the membership check
FeedUpdate_NoCheck ==
    /\ obj.cls = "Feed"
    /\ UNCHANGED urlRaises
    /\ \E kwargs \in Partials :
            /\ last' = Call("update", "Feed", PyNone, PyNone, kwargs)
            /\ IF CheckId(obj.info, "missing feed ID") # NoErr
               THEN /\ err' = CheckId(obj.info, "missing feed ID")
                    /\ UNCHANGED <<obj, net>>
               ELSE /\ Len(net) < MaxCalls
                    /\ \E new_info \in Responses :
                         /\ net' = Append(net, PutCall(Get(obj.info, "id")))
                         /\ obj' = [obj EXCEPT !.info = DictUpdate(@, new_info)]
                         /\ err' = NoErr

\* Feed.update(**kwargs)
FeedUpdate ==
    /\ obj.cls = "Feed"
    /\ UNCHANGED urlRaises
    /\ \E kwargs \in Partials :
        LET new == {i \in DOMAIN kwargs : ~HasKey(obj.info, kwargs[i][1])}
        IN  /\ last' = Call("update", "Feed", PyNone, PyNone, kwargs)
            /\ IF CheckId(obj.info, "missing feed ID") # NoErr
               THEN /\ err' = CheckId(obj.info, "missing feed ID")
                    /\ UNCHANGED <<obj, net>>
               ELSE IF new # {}
               THEN /\ err' = ApiError("can't update nonexistent field",
                                       kwargs[SeqMin(new)][1])
                    /\ UNCHANGED <<obj, net>>
               ELSE /\ Len(net) < MaxCalls
                    /\ \E new_info \in Responses :
                         /\ net' = Append(net, PutCall(Get(obj.info, "id")))
                         /\ obj' = [obj EXCEPT !.info = DictUpdate(@, new_info)]
                         /\ err' = NoErr

\* Feed.delete
FeedDelete ==
    /\ obj.cls = "Feed"
    /\ last' = Op("delete")
    /\ UNCHANGED <<obj, urlRaises>>
    /\ IF CheckId(obj.info, "missing feed ID") # NoErr
       THEN /\ err' = CheckId(obj.info, "missing feed ID")
            /\ UNCHANGED net
       ELSE /\ Len(net) < MaxCalls
            /\ net' = Append(net, DeleteCall(Get(obj.info, "id")))
            /\ err' = NoErr

\* Report.delete: past the identity check there is only a TODO comment
ReportDelete ==
    /\ obj.cls = "Report"
    /\ last' = Op("delete")
    /\ err' = CheckId(obj.info, "missing Report ID")
    /\ UNCHANGED <<obj, net, urlRaises>>

---------------------------------------------------------------------------
(* Specifications                                                          *)

Start == Call("start", "", PyNone, PyNone, <<>>)

\* one object's life: a constructor, then any calls on the object
Init ==
    /\ obj = NoObj
    /\ net = <<>>
    /\ err = NoErr
    /\ last = Start
    /\ urlRaises \in BOOLEAN

Next ==
    \/ NewReport
    \/ NewFeed
    \/ NewIOC
    \/ NewPlain
    \/ Refresh
    \/ Validate
    \/ FeedCreate
    \/ FeedUpdate
    \/ FeedDelete
    \/ ReportDelete

Spec == Init /\ [][Next]_vars

\* validation as a function of the attribute mapping: _validate applied to a
\* Feed without reports or a Report holding a drawn mapping
InitValidate ==
    /\ \E cls \in {"Feed", "Report"} :
        \E D \in {D \in SUBSET DrawnKeys(cls) : Cardinality(D) <= MaxVar} :
            \E a \in [D -> DrawLits \cup {Absent}], order \in DrawnOrders(cls) :
                obj = Drawn(cls, D, a, order)
    /\ net = <<>>
    /\ err = NoErr
    /\ last = Call("drawn", obj.cls, PyNone, PyNone, <<>>)
    /\ urlRaises \in BOOLEAN

NextValidate == Validate

SpecValidate == InitValidate /\ [][NextValidate]_vars

---------------------------------------------------------------------------
(* Properties                                                              *)

SchemaOf(cls) == IF cls = "Feed" THEN FeedValidationMap ELSE ReportValidationMap

\* the keys whose validation_map entry does not say "required": False
RequiredKeysOf(cls) ==
    IF cls = "Feed" THEN {"name", "owner", "provider_url", "summary", "category", "access"}
    ELSE {"timestamp", "title", "description", "severity"}

\* the predicate of schema entry j holds for M's value
PredicateHolds(cls, M, j) ==
    Func(SchemaOf(cls)[j].func, Get(M, SchemaOf(cls)[j].key), urlRaises) = "True"

\* M conforms to the schema of cls
Conforms(cls, M) ==
    /\ Keys(M) \subseteq SchemaKeys(SchemaOf(cls))
    /\ RequiredKeysOf(cls) \subseteq Keys(M)
    /\ \A j \in DOMAIN SchemaOf(cls) :
            HasKey(M, SchemaOf(cls)[j].key) => PredicateHolds(cls, M, j)

UnknownKeys(cls, M) == Keys(M) \ SchemaKeys(SchemaOf(cls))
MissingKeys(cls, M) == RequiredKeysOf(cls) \ Keys(M)
\* the schema entries M offends: a required key absent, or a present value
\* failing its predicate
Offending(cls, M) ==
    {j \in DOMAIN SchemaOf(cls) :
        \/ SchemaOf(cls)[j].key \in MissingKeys(cls, M)
        \/ HasKey(M, SchemaOf(cls)[j].key) /\ ~PredicateHolds(cls, M, j)}

Validated == last.op = "validate" /\ obj.cls \in {"Feed", "Report"} /\ obj.reports = <<>>

\* C1: _validate on a Report, or on a Feed without reports, succeeds if and only if
\* every key of the mapping is a schema key, every required schema key is in the
\* mapping, and every present key's predicate holds; otherwise it raises.
C1_ValidateIffConforms ==
    Validated => (err = NoErr <=> Conforms(obj.cls, obj.info))

\* a Report with an optional field present passed validation
C1_Witness ==
    /\ Validated
    /\ obj.cls = "Report"
    /\ err = NoErr
    /\ HasKey(obj.info, "tags")
    /\ Conforms(obj.cls, obj.info)

\* C2: a mapping with an unknown key and a missing required key is always
\* reported as an unexpected field, never as a missing one.
C2_UnexpectedBeforeMissing ==
    (Validated /\ UnknownKeys(obj.cls, obj.info) # {} /\ MissingKeys(obj.cls, obj.info) # {})
        => /\ err.exc = "ApiError"
           /\ err.msg = "unexpected field"
           /\ err.key \in UnknownKeys(obj.cls, obj.info)

\* the unknown key comes after the place of the missing key and is still the
\* one reported
C2_Witness ==
    /\ Validated
    /\ obj.cls = "Feed"
    /\ "name" \in MissingKeys(obj.cls, obj.info)
    /\ obj.info[Len(obj.info)][1] = "extra"
    /\ err = ApiError("unexpected field", "extra")

C9_Case ==
    /\ Validated
    /\ UnknownKeys(obj.cls, obj.info) = {}
    /\ MissingKeys(obj.cls, obj.info) # {}
    /\ \E j \in DOMAIN SchemaOf(obj.cls) :
            HasKey(obj.info, SchemaOf(obj.cls)[j].key) /\ ~PredicateHolds(obj.cls, obj.info, j)

\* C9 as claimed: with no unknown key, a required key missing and a present
\* value failing its predicate, the missing-field error is the one reported.
C9_Original ==
    C9_Case => err = ApiError("required field missing", err.key)

\* C9 as amended: in that case the error is that of the first offending entry
\* in the schema's declaration order: missing-field when that entry's key is
\* absent, and the failed predicate's error when its key is present.
C9_FirstOffendingEntry ==
    C9_Case =>
        LET first == SchemaOf(obj.cls)[SeqMin(Offending(obj.cls, obj.info))]
        IN  /\ err.key = first.key
            /\ err.msg = "required field missing" <=> ~HasKey(obj.info, first.key)
            /\ err.msg # "required field missing" =>
                    \/ err = ApiError("invalid field", first.key)
                    \/ urlRaises /\ first.func = "url" /\ err.exc = "TypeError"

\* an invalid value declared before the missing key is reported as invalid
C9_Witness ==
    /\ C9_Case
    /\ err.msg = "invalid field"

\* the identity is set: _info has a truthy "id"
IdentitySet(info) == HasKey(info, "id") /\ Truthy(Get(info, "id"))

InvalidChildren(o) == {i \in DOMAIN o.reports : ~Conforms("Report", o.reports[i])}

Posts == {i \in DOMAIN net : net[i].method = "post"}

\* C3: a create() on a Feed whose own attribute mapping does not validate raises,
\* makes no call on cb and leaves _info and _reports as they were.
C3_NoPostOnInvalidFeed ==
    [][(last'.op = "create" /\ obj.cls = "Feed" /\ ~Conforms("Feed", obj.info))
            => (err' # NoErr /\ net' = net /\ obj' = obj)]_vars

\* a Feed with reports and an invalid mapping of its own was refused
C3_Witness ==
    /\ last.op = "create"
    /\ ~Conforms("Feed", obj.info)
    /\ obj.reports # <<>>
    /\ err.exc = "ApiError"
    /\ Posts = {}

C4_Case ==
    /\ last.op = "create"
    /\ obj.cls = "Feed"
    /\ Conforms("Feed", obj.info)
    /\ InvalidChildren(obj) # {}

C5_UpdateRejectsNewField ==
    [][(last'.op = "update" /\ obj.cls = "Feed" /\ IdentitySet(obj.info)
            /\ Keys(last'.kwargs) \ Keys(obj.info) # {})
        => /\ err'.exc = "ApiError"
           /\ err'.msg = "can't update nonexistent field"
           /\ err'.key \in Keys(last'.kwargs) \ Keys(obj.info)
           /\ net' = net
           /\ obj' = obj]_vars

\* an update naming an existing field and a new one was refused
C5_Witness ==
    /\ last.op = "update"
    /\ IdentitySet(obj.info)
    /\ Keys(last.kwargs) \ Keys(obj.info) = {"newfield"}
    /\ "name" \in Keys(last.kwargs) \cap Keys(obj.info)
    /\ err = ApiError("can't update nonexistent field", "newfield")

Constructed == last.op = "init" /\ Truthy(last.data)

\* C6 as claimed: a Feed built from a (non-empty) document with a "feedinfo" key
\* holds the inner document as _info and one Report per entry of "reports", in
\* order; built from a document without "feedinfo" it holds the whole document
\* and no reports.
C6_Original ==
    (Constructed /\ last.cls = "Feed") =>
        /\ obj.cls = "Feed"
        /\ IF HasKey(last.data.map, "feedinfo")
           THEN /\ obj.info = Get(last.data.map, "feedinfo").map
                /\ obj.reports = GetOr(last.data.map, "reports", DictList(<<>>)).list
           ELSE /\ obj.info = last.data.map
                /\ obj.reports = <<>>

\* the document the identity is looked up in
Unwrapped(data) ==
    IF HasKey(data.map, "feedinfo") THEN Get(data.map, "feedinfo").map ELSE data.map

\* C10 as claimed: a Feed or Report built from a document has the explicit
\* identity argument if one was given, else the document's "id", else none;
\* building from a document without "id" succeeds.
C10_Original ==
    (Constructed /\ last.cls \in {"Feed", "Report"}) =>
        /\ obj.cls = last.cls =>
                GetOr(obj.info, "id", PyNone) =
                    IF last.uid # PyNone THEN last.uid
                    ELSE GetOr(Unwrapped(last.data), "id", PyNone)
        /\ (~HasKey(Unwrapped(last.data), "id") /\ ~HasKey(last.data.map, "reports"))
                => obj.cls = last.cls

\* C7: refresh() on a live object of any class raises the unrefreshable error,
\* makes no call on cb and leaves the object as it was.
C7_RefreshAlwaysFails ==
    [][last'.op = "refresh"
        => /\ err' = ApiError("refresh() called on an unrefreshable model", "")
           /\ net' = net
           /\ obj' = obj]_vars

\* a created Feed with its identity set refused to refresh
C7_Witness ==
    /\ last.op = "refresh"
    /\ obj.cls = "Feed"
    /\ IdentitySet(obj.info)
    /\ Posts # {}
    /\ err = ApiError("refresh() called on an unrefreshable model", "")

\* C8 as claimed: delete() on a Report whose identity is set raises.
C8_Original ==
    (last.op = "delete" /\ obj.cls = "Report" /\ IdentitySet(obj.info)) => err # NoErr

====
